---- MODULE Spec2Model ----
(***************************************************************************)
(* A model of the Java/JNA language backend of cbindgen                    *)
(* (src/bindgen/language_backend/java_jna.rs).                             *)
(*                                                                         *)
(* The state is the SourceWriter the backend writes to, the configuration  *)
(* it reads, the position of the driver that calls it, and the last        *)
(* backend operation with its arguments.  The output text is kept as the   *)
(* sequence of pieces handed to the writer, one per write!/out.write call  *)
(* of the source, so that properties can look for a declaration in it.     *)
(***************************************************************************)
EXTENDS Integers, Sequences, FiniteSets, TLC

VARIABLES
  out,      \* the SourceWriter
  config,   \* the Config the backend was built with
  build,    \* the build profile: are integer overflow checks compiled in
  pc,       \* where the driver is
  call,     \* the last backend operation and its arguments
  before,   \* the writer as it was when that operation was called
  ret,      \* the value the last operation returned (pure functions)
  jvm       \* the host runtime that loads the emitted integer wrappers

vars == <<out, config, build, pc, call, before, ret, jvm>>

----------------------------------------------------------------------------
(* Bounds of the model *)

MaxVariants == 3
MaxFields == 2
MaxArgs == 2

----------------------------------------------------------------------------
(* Option, sequences *)

None == [some |-> FALSE]
Some(x) == [some |-> TRUE, val |-> x]

Range(s) == {s[i] : i \in 1..Len(s)}

SeqsUpTo(S, n) == UNION {[1..k -> S] : k \in 0..n}

IsPrefix(s, t) == Len(s) <= Len(t) /\ SubSeq(t, 1, Len(s)) = s

Max(a, b) == IF a >= b THEN a ELSE b

\* the statements of a function body run in program order: v is the value
\* one statement leaves, complete before the statements after it run on it
\* step before it left; the steps are evaluated first to last
then(v, rest(_)) == IF v = v THEN rest(v) ELSE rest(v)

\* the text of a sequence of text fragments
RECURSIVE Str(_)
Str(cs) == IF cs = <<>> THEN "" ELSE Head(cs) \o Str(Tail(cs))

----------------------------------------------------------------------------
(* 32-bit signed integers: i32 *)

I32Max == 2147483647
I32Min == (-2147483647) - 1

Digits == <<"0", "1", "2", "3", "4", "5", "6", "7", "8", "9">>

IsDigit(c) == \E d \in 1..10 : Digits[d] = c
DigitVal(c) == (CHOOSE d \in 1..10 : Digits[d] = c) - 1

\* str::parse::<i32>: an optional sign, then one or more decimal digits,
\* accumulated with checked arithmetic.  The result is Some(n), or None on
\* an empty text, a lone sign, a non-digit character or an overflow.
RECURSIVE parse_digits(_, _, _)
parse_digits(cs, acc, neg) ==
  IF cs = <<>> THEN Some(acc)
  ELSE IF ~IsDigit(Head(cs)) THEN None
  ELSE LET d == DigitVal(Head(cs)) IN
       IF neg
       THEN IF acc < -214748364 THEN None
            ELSE IF acc * 10 < I32Min + d THEN None
            ELSE parse_digits(Tail(cs), acc * 10 - d, neg)
       ELSE IF acc > 214748364 THEN None
            ELSE IF acc * 10 > I32Max - d THEN None
            ELSE parse_digits(Tail(cs), acc * 10 + d, neg)

parse_i32(cs) ==
  IF cs = <<>> THEN None
  ELSE IF Head(cs) = "-"
       THEN (IF Tail(cs) = <<>> THEN None ELSE parse_digits(Tail(cs), 0, TRUE))
  ELSE IF Head(cs) = "+"
       THEN (IF Tail(cs) = <<>> THEN None ELSE parse_digits(Tail(cs), 0, FALSE))
  ELSE parse_digits(cs, 0, FALSE)

\* current_discriminant + 1 on an i32.  With overflow checks (the debug
\* profile) the addition panics at I32Max; without them it wraps.
add_one(n, checks) ==
  IF n = I32Max
  THEN (IF checks THEN [panic |-> TRUE, val |-> 0]
                  ELSE [panic |-> FALSE, val |-> I32Min])
  ELSE [panic |-> FALSE, val |-> n + 1]

----------------------------------------------------------------------------
(* The SourceWriter (bindgen/writer.rs) *)

tab_width == 2

NewWriter ==
  [text |-> <<>>, spaces |-> <<0>>, line_started |-> FALSE,
   line_length |-> 0, line_number |-> 1, max_line_length |-> 0]

\* n spaces
RECURSIVE Blank(_)
Blank(n) ==
  IF n = 0 THEN ""
  ELSE IF n % 2 = 0 THEN LET half == Blank(n \div 2) IN half \o half
  ELSE " " \o Blank(n - 1)

spaces(w) == w.spaces[Len(w.spaces)]

\* InnerWriter::write: indent when the line has not started, then the text
write(w, s) ==
  LET ind == IF w.line_started THEN 0 ELSE spaces(w)
      t1 == IF ind > 0 THEN Append(w.text, Blank(ind)) ELSE w.text
      len == w.line_length + ind + Len(s)
  IN [w EXCEPT !.text = Append(t1, s),
               !.line_started = TRUE,
               !.line_length = len,
               !.max_line_length = Max(w.max_line_length, len)]

new_line(w) ==
  [w EXCEPT !.text = Append(w.text, "\n"),
            !.line_started = FALSE,
            !.line_length = 0,
            !.line_number = w.line_number + 1]

new_line_if_not_start(w) == IF w.line_number # 1 THEN new_line(w) ELSE w

push_tab(w) ==
  [w EXCEPT !.spaces =
     Append(w.spaces, spaces(w) - (spaces(w) % tab_width) + tab_width)]

push_set_spaces(w, n) == [w EXCEPT !.spaces = Append(w.spaces, n)]

pop_tab(w) == [w EXCEPT !.spaces = SubSeq(w.spaces, 1, Len(w.spaces) - 1)]

line_length_for_align(w) ==
  IF w.line_started THEN w.line_length ELSE w.line_length + spaces(w)

open_brace(w) == new_line(push_tab(write(w, " {")))

close_brace(w, semicolon) ==
  write(new_line(pop_tab(w)), IF semicolon THEN "};" ELSE "}")

\* the nesting depth of the writer: one indentation level per open brace
depth(w) == Len(w.spaces)

----------------------------------------------------------------------------
(* The intermediate representation (bindgen/ir) *)

IntKinds ==
  {"Short", "Int", "Long", "LongLong", "SizeT", "Size",
   "B8", "B16", "B32", "B64"}

OtherPrimitives ==
  {"Void", "Bool", "Char", "SChar", "UChar", "Char32", "Float", "Double",
   "VaList", "PtrDiffT"}

Integer(k) == [tag |-> "Primitive", prim |-> "Integer", kind |-> k]
Primitive(p) == [tag |-> "Primitive", prim |-> p, kind |-> "none"]
Ptr(t) == [tag |-> "Ptr", ty |-> t]
Path(n) == [tag |-> "Path", name |-> n]
Array(t) == [tag |-> "Array", ty |-> t]
FuncPtr(r, a) == [tag |-> "FuncPtr", ret |-> r, args |-> a]

Primitives == {Integer(k) : k \in IntKinds} \cup
              {Primitive(p) : p \in OtherPrimitives}

IsInteger(t) == t.tag = "Primitive" /\ t.prim = "Integer"

Expr(cs) == [tag |-> "Expr", expr |-> cs]
StructLiteral(n) == [tag |-> "Struct", export_name |-> n]
CastLiteral(cs) == [tag |-> "Cast", expr |-> cs]

\* Documentation.doc_comment and annotations.deprecated of an item
NoDoc == [doc_comment |-> <<>>]
Annotated ==
  {[documentation |-> NoDoc, deprecated |-> None],
   [documentation |-> [doc_comment |-> <<" A item">>],
    deprecated |-> Some("use B")],
   [documentation |-> NoDoc, deprecated |-> Some("")]}

----------------------------------------------------------------------------
(* The backend: documentation, deprecation, placeholder *)

\* the loop of write_documentation over d.doc_comment, from line k on
RECURSIVE write_doc_lines(_, _, _)
write_doc_lines(w, doc_comment, k) ==
  IF k > Len(doc_comment) THEN w
  ELSE then(write(new_line(w), " *" \o doc_comment[k]), LAMBDA w1 :
       write_doc_lines(w1, doc_comment, k + 1))

write_documentation(w, d) ==
  IF d.doc_comment # <<>>
  THEN then(write(new_line_if_not_start(w), "/**"), LAMBDA w0 :
       then(write_doc_lines(w0, d.doc_comment, 1), LAMBDA w1 :
       new_line(write(new_line(w1), " */"))))
  ELSE w

write_deprecated(w, deprecated) ==
  IF deprecated.some
  THEN then(IF deprecated.val # ""
            THEN new_line(write(new_line(
                   write(new_line(write(w, "/**")),
                         " * @deprecated " \o deprecated.val)), " */"))
            ELSE w, LAMBDA w1 :
       new_line(write(w1, "@Deprecated")))
  ELSE w

\* not_implemented writes the Debug form of the value it is given; the
\* model writes the text dbg in its place
not_implemented(w, dbg) == write(w, "/* Not implemented yet : " \o dbg \o " */")

----------------------------------------------------------------------------
(* write_type *)

\* a pointer mapping that sends every primitive without a ByReference class
\* of its own to PointerByReference
pointee_primitive_name_by_reference(p) ==
  CASE p.prim \in {"Void", "Bool", "Char32", "VaList", "PtrDiffT"} ->
         "PointerByReference"
    [] p.prim \in {"Char", "SChar", "UChar"} -> "ByteByReference"
    [] p.prim = "Float" -> "FloatByReference"
    [] p.prim = "Double" -> "DoubleByReference"
    [] p.prim = "Integer" ->
         CASE p.kind \in {"Short", "B16"} -> "ShortByReference"
           [] p.kind \in {"Int", "B32"} -> "IntByReference"
           [] p.kind \in {"Long", "SizeT", "Size"} -> "NativeLongByReference"
           [] p.kind \in {"LongLong", "B64"} -> "LongByReference"
           [] p.kind = "B8" -> "ByteByReference"

pointee_primitive_name(p) ==
  CASE p.prim = "Void" -> "Pointer"
    [] p.prim = "Bool" -> "Pointer"
    [] p.prim = "Char" -> "ByteByReference"
    [] p.prim = "SChar" -> "ByteByReference"
    [] p.prim = "UChar" -> "ByteByReference"
    [] p.prim = "Char32" -> "Pointer"
    [] p.prim = "Float" -> "FloatByReference"
    [] p.prim = "Double" -> "DoubleByReference"
    [] p.prim = "VaList" -> "PointerByReference"
    [] p.prim = "PtrDiffT" -> "PointerByReference"
    [] p.prim = "Integer" ->
         CASE p.kind = "Short" -> "ShortByReference"
           [] p.kind = "Int" -> "IntByReference"
           [] p.kind = "Long" -> "NativeLongByReference"
           [] p.kind = "LongLong" -> "LongByReference"
           [] p.kind = "SizeT" -> "NativeLongByReference"
           [] p.kind = "Size" -> "NativeLongByReference"
           [] p.kind = "B8" -> "ByteByReference"
           [] p.kind = "B16" -> "ShortByReference"
           [] p.kind = "B32" -> "IntByReference"
           [] p.kind = "B64" -> "LongByReference"

primitive_name(p) ==
  CASE p.prim = "Void" -> "void"
    [] p.prim = "Bool" -> "boolean"
    [] p.prim = "Char" -> "byte"
    [] p.prim = "SChar" -> "byte"
    [] p.prim = "UChar" -> "byte"
    [] p.prim = "Char32" -> "char"
    [] p.prim = "Float" -> "float"
    [] p.prim = "Double" -> "double"
    [] p.prim = "VaList" -> "Pointer"
    [] p.prim = "PtrDiffT" -> "Pointer"
    [] p.prim = "Integer" ->
         CASE p.kind = "Short" -> "short"
           [] p.kind = "Int" -> "int"
           [] p.kind = "Long" -> "NativeLong"
           [] p.kind = "LongLong" -> "long"
           [] p.kind = "SizeT" -> "NativeLong"
           [] p.kind = "Size" -> "NativeLong"
           [] p.kind = "B8" -> "byte"
           [] p.kind = "B16" -> "short"
           [] p.kind = "B32" -> "int"
           [] p.kind = "B64" -> "long"

write_pointer_to(w, ty) ==
  CASE ty.tag = "Ptr" -> write(w, "PointerByReference")
    [] ty.tag = "Path" -> write(w, ty.name \o "ByReference")
    [] ty.tag = "Primitive" -> write(w, pointee_primitive_name(ty))
    [] ty.tag = "Array" -> write(w, "Pointer")
    [] ty.tag = "FuncPtr" -> write(w, "CallbackReference")

RECURSIVE write_type(_, _)
write_type(w, t) ==
  CASE t.tag = "Ptr" -> write_pointer_to(w, t.ty)
    [] t.tag = "Path" -> write(w, t.name)
    [] t.tag = "Primitive" -> write(w, primitive_name(t))
    [] t.tag = "Array" -> write(write_type(w, t.ty), "[]")
    [] t.tag = "FuncPtr" -> write(w, "Callback")

----------------------------------------------------------------------------
(* Literals *)

write_literal(w, l) ==
  CASE l.tag = "Expr" -> write(w, Str(l.expr))
    [] l.tag = "Struct" -> not_implemented(w, "Struct Literal " \o l.export_name)
    [] OTHER -> not_implemented(w, "Literal")

NewNativeLong ==
  <<"n", "e", "w", " ", "N", "a", "t", "i", "v", "e", "L", "o", "n", "g", "(">>

\* a wrapping that gives the platform long kinds the suffix of the 64-bit kinds
wrap_java_value_long_suffix(literal, ty) ==
  IF literal.tag = "Expr"
  THEN CASE ty.tag = "Primitive" ->
              (CASE ty.prim = "Double" -> Expr(literal.expr \o <<"d">>)
                 [] ty.prim = "Float" -> Expr(literal.expr \o <<"f">>)
                 [] ty.prim = "Integer" ->
                      IF ty.kind \in {"LongLong", "B64", "Long", "Size", "SizeT"}
                      THEN Expr(literal.expr \o <<"L">>)
                      ELSE literal
                 [] OTHER -> literal)
         [] ty.tag = "Path" ->
              Expr(<<"n", "e", "w", " ", ty.name, "(">> \o literal.expr \o <<")">>)
         [] OTHER -> literal
  ELSE literal

wrap_java_value(literal, ty) ==
  IF literal.tag = "Expr"
  THEN CASE ty.tag = "Primitive" ->
              (CASE ty.prim = "Double" -> Expr(literal.expr \o <<"d">>)
                 [] ty.prim = "Float" -> Expr(literal.expr \o <<"f">>)
                 [] ty.prim = "Integer" /\ ty.kind \in {"LongLong", "B64"} ->
                      Expr(literal.expr \o <<"L">>)
                 [] ty.prim = "Integer" /\ ty.kind \in {"Long", "Size", "SizeT"} ->
                      Expr(NewNativeLong \o literal.expr \o <<")">>)
                 [] OTHER -> literal)
         [] ty.tag = "Path" ->
              Expr(<<"n", "e", "w", " ", ty.name, "(">> \o literal.expr \o <<")">>)
         [] OTHER -> literal
  ELSE literal

starts_with(cs, p) == IsPrefix(p, cs)
ends_with(cs, p) ==
  Len(p) <= Len(cs) /\ SubSeq(cs, Len(cs) - Len(p) + 1, Len(cs)) = p

java_writable_literal(ty, literal) ==
  IF literal.tag = "Expr"
  THEN ~( (ty = Primitive("Char32")
             /\ starts_with(literal.expr, <<"U", "'", "\\", "U">>))
          \/ (IsInteger(ty) \/ ends_with(literal.expr, <<"u", "l", "l">>)) )
  ELSE FALSE

\* Constant::write for this backend (bindgen/ir/constant.rs): a constant
\* whose literal is writable becomes a static field holding the wrapped
\* literal; any other constant is left out
constant_write(w, c) ==
  IF java_writable_literal(c.ty, c.value)
  THEN then(write_type(write(w, "public static final "), c.ty), LAMBDA w1 :
       then(write(w1, " " \o c.name \o " = "), LAMBDA w2 :
       then(write_literal(w2, wrap_java_value(c.value, c.ty)), LAMBDA w3 :
       new_line(write(w3, ";")))))
  ELSE w

\* the loop over the constants, from the c-th on
RECURSIVE write_constants_from(_, _, _)
write_constants_from(w, constants, c) ==
  IF c > Len(constants) THEN w
  ELSE then(constant_write(w, constants[c]), LAMBDA w1 :
       write_constants_from(w1, constants, c + 1))

write_constants(w, constants) == write_constants_from(w, constants, 1)

----------------------------------------------------------------------------
(* JnaIntegerType *)

size(jt) ==
  CASE jt = "Byte" -> "1"
    [] jt = "Short" -> "2"
    [] jt = "Int" -> "4"
    [] jt = "NativeLong" -> "Native.LONG_SIZE"
    [] jt = "Long" -> "8"
    [] jt = "SizeT" -> "Native.SIZE_T_SIZE"

set_method(jt) ==
  CASE jt = "Byte" -> "setByte(0, (byte)value.intValue())"
    [] jt = "Short" -> "setShort(0, (short)value.intValue())"
    [] jt = "Int" -> "setInt(0, value.intValue())"
    [] jt \in {"NativeLong", "SizeT"} ->
         "setNativeLong(0, new NativeLong(value.longValue()))"
    [] jt = "Long" -> "setLong(0, value.longValue())"

get_method(jt) ==
  CASE jt = "Byte" -> "getByte(0)"
    [] jt = "Short" -> "getShort(0)"
    [] jt = "Int" -> "getInt(0)"
    [] jt \in {"NativeLong", "SizeT"} -> "getNativeLong(0).longValue()"
    [] jt = "Long" -> "getLong(0)"

from_kind(kind) ==
  CASE kind = "Short" -> "Short"
    [] kind = "Int" -> "Int"
    [] kind = "Long" -> "NativeLong"
    [] kind = "LongLong" -> "Long"
    [] kind = "SizeT" -> "SizeT"
    [] kind = "Size" -> "SizeT"
    [] kind = "B8" -> "Byte"
    [] kind = "B16" -> "Short"
    [] kind = "B32" -> "Int"
    [] kind = "B64" -> "Long"

JnaIntegerTypes == {"Byte", "Short", "Int", "NativeLong", "Long", "SizeT"}

----------------------------------------------------------------------------
(* The variants of write_enum *)

variant_line(enum_name, variant_name, text) ==
  "public static final " \o enum_name \o " " \o variant_name
    \o " = new " \o enum_name \o "(" \o text \o ");"

\* the discriminant of one variant: the explicit literal when it is an
\* expression that parses as an i32, else current_discriminant + 1.  The
\* argument of unwrap_or is evaluated before unwrap_or is called, so the
\* addition is made for every variant.
next_discriminant(variant, current_discriminant, checks) ==
  LET parsed == IF variant.discriminant.some
                   /\ variant.discriminant.val.tag = "Expr"
                THEN parse_i32(variant.discriminant.val.expr)
                ELSE None
      fallback == add_one(current_discriminant, checks)
  IN [panic |-> fallback.panic,
      val |-> IF parsed.some THEN parsed.val ELSE fallback.val]

\* the closure handed to write_integer_type: the loop over the variants,
\* from the i-th on.  p is the writer, current_discriminant and whether the
\* loop has panicked.
\* The result is the writer and whether the loop panicked.
RECURSIVE write_enum_variants_from(_, _, _, _)
write_enum_variants_from(p, e, checks, i) ==
  IF i > Len(e.variants) \/ p.panic THEN p
  ELSE then(next_discriminant(e.variants[i], p.current_discriminant, checks),
            LAMBDA d :
       IF d.panic THEN [p EXCEPT !.panic = TRUE]
       ELSE then(new_line(write(
                   write_documentation(p.w, e.variants[i].documentation),
                   variant_line(e.export_name, e.variants[i].export_name,
                                ToString(d.val)))),
                 LAMBDA w2 :
            write_enum_variants_from(
              [w |-> w2, current_discriminant |-> d.val, panic |-> FALSE],
              e, checks, i + 1)))

\* a loop whose counter is kept by the backend and not by the call: it starts
\* from the value the enum emitted before this one left
write_enum_variants_keeping_counter(w, e, checks) ==
  write_enum_variants_from(
    [w |-> w,
     current_discriminant |->
       IF call.op = "write_enum"
       THEN write_enum_variants_from(
              [w |-> NewWriter, current_discriminant |-> 0, panic |-> FALSE],
              call.e, checks, 1).current_discriminant
       ELSE 0,
     panic |-> FALSE], e, checks, 1)

write_enum_variants(w, e, checks) ==
  write_enum_variants_from(
    [w |-> w, current_discriminant |-> 0, panic |-> FALSE], e, checks, 1)

----------------------------------------------------------------------------
(* write_integer_type, write_pointer_type *)

\* a constructor or accessor: signature, open brace, body, close brace
method(w, signature, body) ==
  close_brace(write(open_brace(write(w, signature)), body), FALSE)

\* write_integer_type up to the call of extra
write_integer_type_value(w, documentation, name, jt, deprecated) ==
  then(write_deprecated(write_documentation(w, documentation), deprecated),
       LAMBDA w1 :
  then(open_brace(write(w1, "class " \o name \o " extends IntegerType")),
       LAMBDA w2 :
  then(new_line(new_line(
         method(w2, "public " \o name \o "()", "super(" \o size(jt) \o ");"))),
       LAMBDA w3 :
  then(new_line(new_line(
         method(w3, "public " \o name \o "(long value)",
                "super(" \o size(jt) \o ", value);"))),
       LAMBDA w4 :
  new_line(method(w4, "public " \o name \o "(Pointer p)",
                  "this(p." \o get_method(jt) \o ");"))))))

\* write_integer_type from the return of extra on
write_integer_type_reference(w, name, jt) ==
  then(new_line(new_line(close_brace(w, FALSE))), LAMBDA w1 :
  then(open_brace(write(w1, "class " \o name \o "ByReference extends ByReference")),
       LAMBDA w2 :
  then(new_line(new_line(
         method(w2, "public " \o name \o "ByReference()",
                "super(" \o size(jt) \o ");"))),
       LAMBDA w3 :
  then(write(open_brace(write(w3, "public " \o name \o "ByReference(Pointer p)")),
             "super(" \o size(jt) \o ");"),
       LAMBDA w4 :
  then(new_line(new_line(
         close_brace(write(new_line(w4), "setPointer(p);"), FALSE))),
       LAMBDA w5 :
  then(new_line(new_line(
         method(w5, "public " \o name \o " getValue()",
                "return new " \o name \o "(getPointer()." \o get_method(jt) \o ");"))),
       LAMBDA w6 :
  then(new_line(
         method(w6, "public void setValue(" \o name \o " value)",
                "getPointer()." \o set_method(jt) \o ";")),
       LAMBDA w7 :
  close_brace(w7, FALSE))))))))

\* the closures handed to write_integer_type as extra: |_| {} of
\* write_type_def, the constants of write_struct and the loop of write_enum
\* over the variants of e
NoExtra == [tag |-> "none"]
StructConstants(constants) == [tag |-> "constants", constants |-> constants]
EnumVariants(e, checks) == [tag |-> "variants", e |-> e, checks |-> checks]

call_extra(w, extra) ==
  CASE extra.tag = "variants" ->
         write_enum_variants(w, extra.e, extra.checks)
    [] extra.tag = "constants" ->
         [w |-> write_constants(w, extra.constants),
          current_discriminant |-> 0, panic |-> FALSE]
    [] extra.tag = "none" ->
         [w |-> w, current_discriminant |-> 0, panic |-> FALSE]

\* the result is the writer and whether extra panicked
write_integer_type(w, documentation, name, jt, deprecated, extra) ==
  then(write_integer_type_value(w, documentation, name, jt, deprecated),
       LAMBDA w1 :
  then(call_extra(w1, extra), LAMBDA v :
  IF v.panic
  THEN [w |-> v.w, panic |-> TRUE]
  ELSE [w |-> write_integer_type_reference(v.w, name, jt), panic |-> FALSE]))

write_enum(w, e, checks) ==
  write_integer_type(w, e.documentation, e.export_name, "Int", e.deprecated,
                     EnumVariants(e, checks))

\* a write_pointer_type that leaves the ByReference class open
write_pointer_type_unclosed(w, documentation, deprecated, name) ==
  then(write_deprecated(write_documentation(w, documentation), deprecated),
       LAMBDA w1 :
  then(open_brace(write(w1, "class " \o name \o " extends PointerType")),
       LAMBDA w2 :
  then(new_line(method(w2, "public " \o name \o "()", "super(null);")),
       LAMBDA w3 :
  then(method(w3, "public " \o name \o "(Pointer p)", "super(p);"), LAMBDA w4 :
  then(new_line(new_line(close_brace(w4, FALSE))), LAMBDA w5 :
  then(write_deprecated(write_documentation(w5, documentation), deprecated),
       LAMBDA w6 :
  then(open_brace(write(w6, "class " \o name \o "ByReference extends " \o name)),
       LAMBDA w7 :
  then(new_line(method(w7, "public " \o name \o "ByReference()", "super(null);")),
       LAMBDA w8 :
  method(w8, "public " \o name \o "ByReference(Pointer p)", "super(p);")))))))))

write_pointer_type(w, documentation, deprecated, name) ==
  then(write_deprecated(write_documentation(w, documentation), deprecated),
       LAMBDA w1 :
  then(open_brace(write(w1, "class " \o name \o " extends PointerType")),
       LAMBDA w2 :
  then(new_line(method(w2, "public " \o name \o "()", "super(null);")),
       LAMBDA w3 :
  then(method(w3, "public " \o name \o "(Pointer p)", "super(p);"), LAMBDA w4 :
  then(new_line(new_line(close_brace(w4, FALSE))), LAMBDA w5 :
  then(write_deprecated(write_documentation(w5, documentation), deprecated),
       LAMBDA w6 :
  then(open_brace(write(w6, "class " \o name \o "ByReference extends " \o name)),
       LAMBDA w7 :
  then(new_line(method(w7, "public " \o name \o "ByReference()", "super(null);")),
       LAMBDA w8 :
  then(method(w8, "public " \o name \o "ByReference(Pointer p)", "super(p);"),
       LAMBDA w9 :
  close_brace(w9, FALSE))))))))))

----------------------------------------------------------------------------
(* Lists: function arguments, field order *)

\* an argument writer that numbers the unnamed arguments from one
write_indexed_function_arg_from_one(w, a) ==
  write(write_type(w, a.ty),
        " " \o (IF a.name.some /\ a.name.val # "_"
                THEN a.name.val
                ELSE "arg" \o ToString(a.index + 1)))

write_indexed_function_arg(w, a) ==
  write(write_type(w, a.ty),
        " " \o (IF a.name.some /\ a.name.val # "_"
                THEN a.name.val
                ELSE "arg" \o ToString(a.index)))

\* the item closure handed to the list writers: write_indexed_function_arg
\* for arguments, write!(out, "{}", s) for the quoted field names
write_list_item(w, item_writer, item) ==
  IF item_writer = "write_indexed_function_arg"
  THEN write_indexed_function_arg(w, item)
  ELSE write(w, item)

\* write_horizontal_source_list with ListType::Join(sep): the items on one
\* line, sep between them
RECURSIVE write_horizontal_items(_, _, _, _, _)
write_horizontal_items(w, items, sep, item_writer, j) ==
  IF j > Len(items) THEN w
  ELSE then(write_list_item(w, item_writer, items[j]), LAMBDA w1 :
       then(IF j # Len(items) THEN write(w1, sep) ELSE w1, LAMBDA w2 :
       write_horizontal_items(w2, items, sep, item_writer, j + 1)))

write_horizontal_source_list(w, items, sep, item_writer) ==
  write_horizontal_items(w, items, sep, item_writer, 1)

\* write_vertical_source_list with ListType::Join(sep): one item per line,
\* aligned on the column the list starts at
RECURSIVE write_vertical_items(_, _, _, _, _)
write_vertical_items(w, items, sep, item_writer, j) ==
  IF j > Len(items) THEN w
  ELSE then(write_list_item(w, item_writer, items[j]), LAMBDA w1 :
       then(IF j # Len(items) THEN new_line(write(w1, sep)) ELSE w1, LAMBDA w2 :
       write_vertical_items(w2, items, sep, item_writer, j + 1)))

write_vertical_source_list(w, items, sep, item_writer) ==
  pop_tab(write_vertical_items(push_set_spaces(w, line_length_for_align(w)),
                               items, sep, item_writer, 1))

\* try_write: the attempt runs on a measuring copy of the writer, and what
\* it wrote is kept only when no line went over max_line_length.  The
\* measuring copy the attempt starts from:
try_write_measure(w) == [w EXCEPT !.max_line_length = w.line_length]

\* m is the measuring copy after the attempt
try_write_fits(w, max_len, m) ==
  /\ w.line_length <= max_len
  /\ m.max_line_length <= max_len

try_write(w, max_len, m) ==
  IF try_write_fits(w, max_len, m)
  THEN LET added == SubSeq(m.text, Len(w.text) + 1, Len(m.text))
           len == w.line_length + Len(Str(added))
       IN [ok |-> TRUE,
           w |-> [w EXCEPT !.text = w.text \o added,
                           !.line_started = TRUE,
                           !.line_length = len,
                           !.max_line_length = Max(w.max_line_length, len)]]
  ELSE [ok |-> FALSE, w |-> w]

\* an Auto layout that keeps the horizontal list whether it fits or not
write_indexed_function_args_no_fallback(w, cfg, a) ==
  CASE cfg.args = "Horizontal" ->
         write_horizontal_source_list(w, a, ", ", "write_indexed_function_arg")
    [] cfg.args = "Vertical" ->
         write_vertical_source_list(w, a, ", ", "write_indexed_function_arg")
    [] cfg.args = "Auto" ->
         write_horizontal_source_list(w, a, ", ", "write_indexed_function_arg")

write_indexed_function_args(w, cfg, a) ==
  CASE cfg.args = "Horizontal" ->
         write_horizontal_source_list(w, a, ", ", "write_indexed_function_arg")
    [] cfg.args = "Vertical" ->
         write_vertical_source_list(w, a, ", ", "write_indexed_function_arg")
    [] cfg.args = "Auto" ->
         then(try_write(w, cfg.line_length,
                write_horizontal_source_list(
                  try_write_measure(w), a, ", ", "write_indexed_function_arg")),
              LAMBDA t :
         IF ~t.ok
         THEN write_vertical_source_list(w, a, ", ", "write_indexed_function_arg")
         ELSE t.w)

indexed(args) ==
  [i \in 1..Len(args) |-> [name |-> args[i].name, ty |-> args[i].ty, index |-> i - 1]]

field_names(fields) ==
  [i \in 1..Len(fields) |-> "\"" \o fields[i].name \o "\""]

\* a field order that follows the layout configured for function arguments
write_field_order_by_layout(w, cfg, fields) ==
  IF field_names(fields) # <<>>
  THEN then(write(w, "@Structure.FieldOrder({"), LAMBDA w1 :
       then(try_write(w1, cfg.line_length,
              write_horizontal_source_list(
                try_write_measure(w1), field_names(fields), ", ", "write")),
            LAMBDA t :
       then(CASE cfg.args = "Horizontal" ->
                   write_horizontal_source_list(w1, field_names(fields), ", ", "write")
              [] cfg.args = "Vertical" ->
                   write_vertical_source_list(w1, field_names(fields), ",", "write")
              [] cfg.args = "Auto" ->
                   IF ~t.ok
                   THEN write_vertical_source_list(w1, field_names(fields), ",", "write")
                   ELSE t.w,
            LAMBDA w2 :
       new_line(write(w2, "})")))))
  ELSE w

\* the @Structure.FieldOrder annotation of write_jna_struct
write_field_order(w, cfg, fields) ==
  IF field_names(fields) # <<>>
  THEN then(write(w, "@Structure.FieldOrder({"), LAMBDA w1 :
       then(try_write(w1, cfg.line_length,
              write_horizontal_source_list(
                try_write_measure(w1), field_names(fields), ", ", "write")),
            LAMBDA t :
       then(IF ~t.ok
            THEN write_vertical_source_list(w1, field_names(fields), ",", "write")
            ELSE t.w,
            LAMBDA w2 :
       new_line(write(w2, "})")))))
  ELSE w

----------------------------------------------------------------------------
(* Structs, unions, opaque items *)

class_header(name, superclass, interface) ==
  "class " \o name \o " extends " \o superclass \o " implements " \o interface

write_field(w, field) ==
  then(write(write_documentation(w, field.documentation), "public "), LAMBDA w1 :
  then(write_type(w1, field.ty), LAMBDA w2 :
  new_line(write(w2, " " \o field.name \o ";"))))

\* the loop of write_jna_struct over the fields, from the i-th on
RECURSIVE write_fields_from(_, _, _)
write_fields_from(w, fields, i) ==
  IF i > Len(fields) THEN w
  ELSE then(write_field(w, fields[i]), LAMBDA w1 :
       write_fields_from(w1, fields, i + 1))

write_jna_struct(w, cfg, s) ==
  then(write_deprecated(
         write_documentation(new_line(w), s.documentation), s.deprecated),
       LAMBDA w1 :
  then(write_field_order(w1, cfg, s.fields), LAMBDA w2 :
  then(open_brace(write(w2, class_header(s.name, s.superclass, s.interface))),
       LAMBDA w3 :
  then(write_constants(w3, s.constants), LAMBDA w4 :
  then(new_line(new_line(method(w4, "public " \o s.name \o "()", "super();"))),
       LAMBDA w5 :
  then(new_line(new_line(
         method(w5, "public " \o s.name \o "(Pointer p)", "super(p);"))),
       LAMBDA w6 :
  then(write_fields_from(w6, s.fields, 1), LAMBDA w7 :
  new_line(close_brace(w7, FALSE)))))))))

JnaStruct(item, constants, fields, name, superclass, interface) ==
  [documentation |-> item.documentation, constants |-> constants,
   fields |-> fields, name |-> name, superclass |-> superclass,
   interface |-> interface, deprecated |-> item.deprecated]

\* write_struct on a struct that is not transparent
write_plain_struct(w, cfg, s) ==
  then(write_jna_struct(w, cfg,
         JnaStruct(s, s.associated_constants, s.fields, s.export_name,
                   "Structure", "Structure.ByValue")),
       LAMBDA w1 :
  write_jna_struct(w1, cfg,
    JnaStruct(s, s.associated_constants, s.fields,
              s.export_name \o "ByReference",
              "Structure", "Structure.ByReference")))

\* write_struct on a transparent struct: the match on s.fields.first()
write_transparent_struct(w, cfg, s, field) ==
  CASE field.some /\ IsInteger(field.val.ty) ->
         write_integer_type(w, s.documentation, s.export_name,
                            from_kind(field.val.ty.kind), s.deprecated,
                            StructConstants(s.associated_constants)).w
    [] field.some /\ field.val.ty.tag = "Path" ->
         then(write_jna_struct(w, cfg,
                JnaStruct(s, s.associated_constants, <<>>, s.export_name,
                          field.val.ty.name, "Structure.ByValue")),
              LAMBDA w1 :
         write_jna_struct(w1, cfg,
           JnaStruct(s, s.associated_constants, <<>>,
                     s.export_name \o "ByReference",
                     field.val.ty.name, "Structure.ByReference")))
    [] field.some /\ field.val.ty.tag = "Array" ->
         write_pointer_type(w, s.documentation, s.deprecated, s.export_name)
    [] OTHER -> not_implemented(w, "Struct " \o s.export_name)

first(fields) == IF fields = <<>> THEN None ELSE Some(fields[1])
last(fields) == IF fields = <<>> THEN None ELSE Some(fields[Len(fields)])

\* a write_struct that matches on the last field instead of the first
write_struct_on_last_field(w, cfg, s) ==
  IF s.is_transparent
  THEN write_transparent_struct(w, cfg, s, last(s.fields))
  ELSE write_plain_struct(w, cfg, s)

write_struct(w, cfg, s) ==
  IF s.is_transparent
  THEN write_transparent_struct(w, cfg, s, first(s.fields))
  ELSE write_plain_struct(w, cfg, s)

write_union(w, cfg, u) ==
  then(write_jna_struct(w, cfg,
         JnaStruct(u, <<>>, u.fields, u.export_name, "Union",
                   "Structure.ByValue")),
       LAMBDA w1 :
  write_jna_struct(w1, cfg,
    JnaStruct(u, <<>>, u.fields, u.export_name \o "ByReference",
              "Union", "Structure.ByReference")))

\* an opaque item emitted as its by-value class alone
write_opaque_item_without_reference(w, o) ==
  then(write_deprecated(write_documentation(w, o.documentation), o.deprecated),
       LAMBDA w1 :
  then(open_brace(write(w1, "class " \o o.export_name \o " extends PointerType")),
       LAMBDA w2 :
  then(new_line(method(w2, "public " \o o.export_name \o "()", "super(null);")),
       LAMBDA w3 :
  then(method(w3, "public " \o o.export_name \o "(Pointer p)", "super(p);"),
       LAMBDA w4 :
  close_brace(w4, FALSE)))))

write_opaque_item(w, o) ==
  write_pointer_type(w, o.documentation, o.deprecated, o.export_name)

----------------------------------------------------------------------------
(* Typedefs, functions, statics *)

subclass(w, name, superclass) ==
  then(open_brace(write(w, "class " \o name \o " extends " \o superclass)),
       LAMBDA w1 :
  then(new_line(method(w1, "public " \o name \o "()", "super();")), LAMBDA w2 :
  then(method(w2, "public " \o name \o "(Pointer p)", "super(p);"), LAMBDA w3 :
  close_brace(w3, FALSE))))

\* write_type_def with the Path arm of write_struct: both classes extend the
\* path's by-value class
write_type_def_like_struct(w, cfg, t) ==
  CASE t.aliased.tag = "FuncPtr" ->
         then(open_brace(
                write(w, "interface " \o t.export_name \o " extends Callback")),
              LAMBDA w1 :
         then(write(write_type(w1, t.aliased.ret), " invoke("), LAMBDA w2 :
         then(write_indexed_function_args(w2, cfg, indexed(t.aliased.args)),
              LAMBDA w3 :
         close_brace(write(w3, ");"), FALSE))))
    [] t.aliased.tag = "Path" ->
         then(subclass(write_documentation(w, t.documentation),
                       t.export_name, t.aliased.name),
              LAMBDA w1 :
         then(write_documentation(new_line(new_line(w1)), t.documentation),
              LAMBDA w2 :
         subclass(w2, t.export_name \o "ByReference", t.aliased.name)))
    [] t.aliased.tag = "Primitive" ->
         IF t.aliased.prim = "Integer"
         THEN write_integer_type(w, t.documentation, t.export_name,
                                 from_kind(t.aliased.kind), t.deprecated,
                                 NoExtra).w
         ELSE not_implemented(w, "Typedef " \o t.export_name)
    [] t.aliased.tag = "Ptr" ->
         write_pointer_type(w, t.documentation, t.deprecated, t.export_name)
    [] t.aliased.tag = "Array" ->
         write_pointer_type(w, t.documentation, t.deprecated, t.export_name)

write_type_def(w, cfg, t) ==
  CASE t.aliased.tag = "FuncPtr" ->
         then(open_brace(
                write(w, "interface " \o t.export_name \o " extends Callback")),
              LAMBDA w1 :
         then(write(write_type(w1, t.aliased.ret), " invoke("), LAMBDA w2 :
         then(write_indexed_function_args(w2, cfg, indexed(t.aliased.args)),
              LAMBDA w3 :
         close_brace(write(w3, ");"), FALSE))))
    [] t.aliased.tag = "Path" ->
         then(subclass(write_documentation(w, t.documentation),
                       t.export_name, t.aliased.name),
              LAMBDA w1 :
         then(write_documentation(new_line(new_line(w1)), t.documentation),
              LAMBDA w2 :
         subclass(w2, t.export_name \o "ByReference", t.aliased.name \o "ByReference")))
    [] t.aliased.tag = "Primitive" ->
         IF t.aliased.prim = "Integer"
         THEN write_integer_type(w, t.documentation, t.export_name,
                                 from_kind(t.aliased.kind), t.deprecated,
                                 NoExtra).w
         ELSE not_implemented(w, "Typedef " \o t.export_name)
    [] t.aliased.tag = "Ptr" ->
         write_pointer_type(w, t.documentation, t.deprecated, t.export_name)
    [] t.aliased.tag = "Array" ->
         write_pointer_type(w, t.documentation, t.deprecated, t.export_name)

\* the Debug form of a static lists its annotations, a HashMap, in the
\* iteration order of that map: the order belongs to the node
write_static(w, s) ==
  not_implemented(w, "Static " \o s.export_name
                       \o " {" \o Str(s.annotations) \o "}")

write_function(w, cfg, f) ==
  then(write_deprecated(write_documentation(w, f.documentation), f.deprecated),
       LAMBDA w1 :
  then(write(write_type(w1, f.ret), " " \o f.name \o "("), LAMBDA w2 :
  then(write_indexed_function_args(w2, cfg, indexed(f.args)), LAMBDA w3 :
  write(w3, ");"))))

----------------------------------------------------------------------------
(* Headers and namespaces *)

write_headers(w, cfg) ==
  then(IF cfg.header.some
       THEN new_line(write(new_line_if_not_start(w), cfg.header.val))
       ELSE w, LAMBDA w1 :
  then(IF cfg.include_version
       THEN new_line(write(new_line_if_not_start(w1),
                           "/* Generated with cbindgen:" \o cfg.version \o " */"))
       ELSE w1, LAMBDA w2 :
  then(IF cfg.autogen_warning.some
       THEN new_line(write(new_line_if_not_start(w2), cfg.autogen_warning.val))
       ELSE w2, LAMBDA w3 :
  then(IF cfg.package.some
       THEN new_line(new_line(write(new_line_if_not_start(w3),
                                    "package " \o cfg.package.val \o ";")))
       ELSE w3, LAMBDA w4 :
  new_line(write(new_line(write(w4, "import com.sun.jna.*;")),
                 "import com.sun.jna.ptr.*;"))))))

\* self.config.java_jna.interface_name, "Bindings" when it is not set
interface_name(cfg) ==
  IF cfg.interface_name.some THEN cfg.interface_name.val ELSE "Bindings"

open_close_namespaces(w, cfg, op) ==
  IF op = "Open"
  THEN then(open_brace(write(new_line_if_not_start(w),
                             "enum " \o interface_name(cfg) \o "Singleton")),
            LAMBDA w1 :
       then(write(new_line(write(w1, "INSTANCE;")),
                  "final " \o interface_name(cfg) \o " lib = Native.load(\""
                    \o cfg.binding_lib_crate_name \o "\", "
                    \o interface_name(cfg) \o ".class);"),
            LAMBDA w2 :
       then(new_line(new_line(close_brace(w2, FALSE))), LAMBDA w3 :
       then(open_brace(write(w3, "interface " \o interface_name(cfg)
                                   \o " extends Library")),
            LAMBDA w4 :
       then(new_line(write(w4, interface_name(cfg) \o " INSTANCE = "
                                 \o interface_name(cfg)
                                 \o "Singleton.INSTANCE.lib;")),
            LAMBDA w5 :
       IF cfg.extra_defs.some
       THEN new_line(write(w5, cfg.extra_defs.val))
       ELSE w5)))))
  ELSE close_brace(w, FALSE)

----------------------------------------------------------------------------
(* The inputs the driver draws from *)

MaxTypeDepth == 2

Layouts == {"Horizontal", "Vertical", "Auto"}
LineLengths == {30, 50, 100}

Plain ==
  [header |-> None, include_version |-> FALSE, version |-> "0.26.0",
   autogen_warning |-> None, package |-> None, interface_name |-> None,
   extra_defs |-> None, binding_lib_crate_name |-> "native"]

Full ==
  [header |-> Some("/* header */"), include_version |-> TRUE,
   version |-> "0.26.0", autogen_warning |-> Some("/* do not edit */"),
   package |-> Some("org.example"), interface_name |-> Some("Api"),
   extra_defs |-> Some("int EXTRA = 1;"), binding_lib_crate_name |-> "native"]

WithLayout(c, args, line_length) ==
  [header |-> c.header, include_version |-> c.include_version,
   version |-> c.version, autogen_warning |-> c.autogen_warning,
   package |-> c.package, interface_name |-> c.interface_name,
   extra_defs |-> c.extra_defs,
   binding_lib_crate_name |-> c.binding_lib_crate_name,
   args |-> args, line_length |-> line_length]

Configs ==
  {WithLayout(c, a, l) : c \in {Plain, Full}, a \in Layouts, l \in LineLengths}

RECURSIVE TypesUpTo(_)
TypesUpTo(d) ==
  IF d = 0
  THEN Primitives \cup {Path("P")}
         \cup {FuncPtr(Primitive("Void"), <<>>),
               FuncPtr(Integer("Int"),
                       <<[name |-> Some("x"), ty |-> Integer("Int")],
                         [name |-> None, ty |-> Ptr(Path("P"))]>>)}
  ELSE LET T == TypesUpTo(d - 1)
       IN T \cup {Ptr(t) : t \in T} \cup {Array(t) : t \in T}

Types == TypesUpTo(MaxTypeDepth)

I32MaxText == <<"2", "1", "4", "7", "4", "8", "3", "6", "4", "7">>

Discriminants ==
  {None,
   Some(Expr(<<"5">>)),
   Some(Expr(<<"-", "1">>)),
   Some(Expr(<<"+", "0", "7">>)),
   Some(Expr(I32MaxText)),
   Some(Expr(<<"2", "1", "4", "7", "4", "8", "3", "6", "4", "8">>)),
   Some(Expr(<<"0", "x", "1", "0">>)),
   Some(StructLiteral("S"))}

VariantChoices ==
  {[discriminant |-> d, documentation |-> NoDoc] : d \in Discriminants}
    \cup {[discriminant |-> None,
           documentation |-> [doc_comment |-> <<" A variant">>]]}

Enums ==
  {[export_name |-> "E", documentation |-> a.documentation,
    deprecated |-> a.deprecated,
    variants |-> [i \in 1..Len(vs) |->
                    [export_name |-> "V" \o ToString(i),
                     discriminant |-> vs[i].discriminant,
                     documentation |-> vs[i].documentation]]] :
     a \in Annotated, vs \in SeqsUpTo(VariantChoices, MaxVariants)}

FirstFieldTypes ==
  {Integer(k) : k \in IntKinds}
    \cup {Primitive("Float"), Primitive("Void"), Primitive("Bool"),
          Path("P"), Array(Integer("Int")), Ptr(Path("P")),
          Ptr(Integer("Int")), FuncPtr(Primitive("Void"), <<>>)}

RestFieldTypes == {Integer("Int"), Ptr(Path("P")), Array(Primitive("Float"))}

FieldLists ==
  {<<>>} \cup
  {<<t>> \o r : t \in FirstFieldTypes, r \in SeqsUpTo(RestFieldTypes, MaxFields - 1)}

FieldName(i) == IF i = 1 THEN "x" ELSE "field_number_" \o ToString(i)

Fields(tys) ==
  [i \in 1..Len(tys) |->
     [name |-> FieldName(i), ty |-> tys[i],
      documentation |-> IF i = 2 THEN [doc_comment |-> <<" A field">>]
                        ELSE NoDoc]]

Constants ==
  {<<>>,
   <<[name |-> "S_K", ty |-> Primitive("Float"), value |-> Expr(<<"1", ".", "5">>)]>>}

Structs ==
  {[export_name |-> "S", documentation |-> a.documentation,
    deprecated |-> a.deprecated, is_transparent |-> tr,
    fields |-> Fields(tys), associated_constants |-> cs] :
     a \in Annotated, tr \in BOOLEAN, tys \in FieldLists, cs \in Constants}

ArgNames == {None, Some("_"), Some("count")}
ArgTypes == {Integer("Int"), Ptr(Primitive("Float")), Path("P")}
ArgChoices == {[name |-> n, ty |-> t] : n \in ArgNames, t \in ArgTypes}

Functions ==
  {[name |-> "f", documentation |-> a.documentation, deprecated |-> a.deprecated,
    ret |-> r, args |-> as] :
     a \in Annotated, r \in {Primitive("Void"), Ptr(Path("P"))},
     as \in SeqsUpTo(ArgChoices, MaxArgs)}

Typedefs ==
  {[export_name |-> "T", documentation |-> a.documentation,
    deprecated |-> a.deprecated, aliased |-> t] :
     a \in Annotated, t \in TypesUpTo(1)}

----------------------------------------------------------------------------
(* The driver: headers, the namespace, one declaration, the namespace end *)

NoCall == [op |-> "none"]

Init ==
  /\ out = NewWriter
  /\ config \in Configs
  /\ build \in [overflow_checks : BOOLEAN]
  /\ pc = "start"
  /\ call = NoCall
  /\ before = NewWriter
  /\ ret = None
  /\ jvm = [pc |-> "off"]

WriteHeaders ==
  /\ pc = "start"
  /\ out' = write_headers(out, config)
  /\ pc' = "headers"
  /\ call' = [op |-> "write_headers"]
  /\ before' = out
  /\ UNCHANGED <<config, build, ret, jvm>>

OpenNamespaces ==
  /\ pc = "headers"
  /\ out' = open_close_namespaces(out, config, "Open")
  /\ pc' = "body"
  /\ call' = [op |-> "open_close_namespaces", ns |-> "Open"]
  /\ before' = out
  /\ UNCHANGED <<config, build, ret, jvm>>

CloseNamespaces ==
  /\ pc \in {"body", "emitted"}
  /\ out' = open_close_namespaces(out, config, "Close")
  /\ pc' = "closed"
  /\ call' = [op |-> "open_close_namespaces", ns |-> "Close"]
  /\ before' = out
  /\ UNCHANGED <<config, build, ret, jvm>>

WriteEnum ==
  /\ pc = "body"
  /\ \E e \in Enums :
       LET r == write_enum(out, e, build.overflow_checks)
       IN /\ out' = r.w
          /\ pc' = IF r.panic THEN "panicked" ELSE "emitted"
          /\ call' = [op |-> "write_enum", e |-> e]
  /\ before' = out
  /\ UNCHANGED <<config, build, ret, jvm>>

WriteStruct ==
  /\ pc = "body"
  /\ \E s \in Structs :
       /\ out' = write_struct(out, config, s)
       /\ call' = [op |-> "write_struct", s |-> s]
  /\ pc' = "emitted"
  /\ before' = out
  /\ UNCHANGED <<config, build, ret, jvm>>

WriteTypeDef ==
  /\ pc = "body"
  /\ \E t \in Typedefs :
       /\ out' = write_type_def(out, config, t)
       /\ call' = [op |-> "write_type_def", t |-> t]
  /\ pc' = "emitted"
  /\ before' = out
  /\ UNCHANGED <<config, build, ret, jvm>>

WriteFunction ==
  /\ pc = "body"
  /\ \E f \in Functions :
       /\ out' = write_function(out, config, f)
       /\ call' = [op |-> "write_function", f |-> f]
  /\ pc' = "emitted"
  /\ before' = out
  /\ UNCHANGED <<config, build, ret, jvm>>

WriteType ==
  /\ pc = "body"
  /\ \E t \in Types :
       /\ out' = write_type(out, t)
       /\ call' = [op |-> "write_type", t |-> t]
  /\ pc' = "emitted"
  /\ before' = out
  /\ UNCHANGED <<config, build, ret, jvm>>

OpaqueItems ==
  {[export_name |-> n, documentation |-> a.documentation,
    deprecated |-> a.deprecated] :
     n \in {"Handle", "N"}, a \in Annotated}

WriteOpaqueItem ==
  /\ pc = "body"
  /\ \E o \in OpaqueItems :
       /\ out' = write_opaque_item(out, o)
       /\ call' = [op |-> "write_opaque_item", o |-> o]
  /\ pc' = "emitted"
  /\ before' = out
  /\ UNCHANGED <<config, build, ret, jvm>>

Unions ==
  {[export_name |-> "U", documentation |-> a.documentation,
    deprecated |-> a.deprecated, fields |-> Fields(tys)] :
     a \in Annotated, tys \in FieldLists}

WriteUnion ==
  /\ pc = "body"
  /\ \E u \in Unions :
       /\ out' = write_union(out, config, u)
       /\ call' = [op |-> "write_union", u |-> u]
  /\ pc' = "emitted"
  /\ before' = out
  /\ UNCHANGED <<config, build, ret, jvm>>

Statics ==
  {[export_name |-> "G", annotations |-> order] :
     order \in {<<>>, <<"a">>, <<"a", "b">>, <<"b", "a">>}}

WriteStatic ==
  /\ pc = "body"
  /\ \E s \in Statics :
       /\ out' = write_static(out, s)
       /\ call' = [op |-> "write_static", s |-> s]
  /\ pc' = "emitted"
  /\ before' = out
  /\ UNCHANGED <<config, build, ret, jvm>>

\* the declaration emitters of impl LanguageBackend
Declarations ==
  {"write_enum", "write_struct", "write_union", "write_opaque_item",
   "write_type_def", "write_static", "write_function"}

\* the emitter call c made on the writer w
emit(w, cfg, checks, c) ==
  CASE c.op = "write_enum" -> write_enum(w, c.e, checks).w
    [] c.op = "write_struct" -> write_struct(w, cfg, c.s)
    [] c.op = "write_union" -> write_union(w, cfg, c.u)
    [] c.op = "write_opaque_item" -> write_opaque_item(w, c.o)
    [] c.op = "write_type_def" -> write_type_def(w, cfg, c.t)
    [] c.op = "write_static" -> write_static(w, c.s)
    [] c.op = "write_function" -> write_function(w, cfg, c.f)

\* a second run: the same calls on the same nodes with the same
\* configuration, from a fresh writer; ret keeps the writer it ends with
Replay ==
  /\ pc = "emitted"
  /\ call.op \in Declarations
  /\ ret' = Some(emit(open_close_namespaces(write_headers(NewWriter, config),
                                            config, "Open"),
                      config, build.overflow_checks, call))
  /\ pc' = "replayed"
  /\ UNCHANGED <<out, config, build, call, before, jvm>>

\* the same declaration emitted once more in the same run; ret keeps what
\* the first call wrote
WriteAgain ==
  /\ pc = "emitted"
  /\ call.op \in Declarations
  /\ out' = emit(out, config, build.overflow_checks, call)
  /\ ret' = Some(SubSeq(out.text, Len(before.text) + 1, Len(out.text)))
  /\ before' = out
  /\ pc' = "repeated"
  /\ UNCHANGED <<config, build, call, jvm>>

\* the text written so far has gone to the sink (the writer only appends);
\* what later calls read of the writer is kept: the indentation stack and
\* the position in the line.  line_number is read only for being 1 and
\* max_line_length is set anew by every try_write.
Flushed(w) ==
  [w EXCEPT !.text = <<>>, !.line_number = 2, !.max_line_length = 0]

\* the driver ends the line after each item (out.new_line() in the loop
\* over the items) and goes on to the next one
NextDeclaration ==
  /\ pc = "emitted"
  /\ call.op \in Declarations
  /\ out' = Flushed(new_line(out))
  /\ before' = Flushed(new_line(out))
  /\ pc' = "body"
  /\ call' = NoCall
  /\ UNCHANGED <<config, build, ret, jvm>>

Literals ==
  {Expr(<<"1">>), Expr(<<"1", ".", "5">>), Expr(<<"-", "2", "u", "l", "l">>),
   StructLiteral("S"), CastLiteral(<<"1">>)}

\* a call of wrap_java_value, as Constant::write makes it
WrapJavaValue ==
  /\ pc = "body"
  /\ \E l \in Literals, ty \in Types :
       /\ ret' = Some(wrap_java_value(l, ty))
       /\ call' = [op |-> "wrap_java_value", literal |-> l, ty |-> ty]
  /\ pc' = "emitted"
  /\ before' = out
  /\ UNCHANGED <<out, config, build, jvm>>

\* the literals of constants: those of wrap_java_value and a char32_t one
ConstantLiterals ==
  Literals \cup {Expr(<<"U", "'", "\\", "U", "0", "0", "0", "1", "F", "6", "0", "0", "'">>),
                 Expr(<<"'", "a", "'">>)}

\* a call of java_writable_literal, as Constant::write makes it
JavaWritableLiteral ==
  /\ pc = "body"
  /\ \E l \in ConstantLiterals, ty \in Types :
       /\ ret' = Some(java_writable_literal(ty, l))
       /\ call' = [op |-> "java_writable_literal", literal |-> l, ty |-> ty]
  /\ pc' = "emitted"
  /\ before' = out
  /\ UNCHANGED <<out, config, build, jvm>>

\* what the last operation appended to the output
Emitted == SubSeq(out.text, Len(before.text) + 1, Len(out.text))

Wrote(piece) == piece \in Range(Emitted)

Returned(op) == pc \in {"emitted", "panicked"} /\ call.op = op

----------------------------------------------------------------------------
(* Specifications: the initial configurations and the operations of each *)

FixedLayout == config.args = "Auto" /\ config.line_length = 100

InitEnum == Init /\ FixedLayout
NextEnum == WriteHeaders \/ OpenNamespaces \/ WriteEnum \/ CloseNamespaces
SpecEnum == InitEnum /\ [][NextEnum]_vars

----------------------------------------------------------------------------
(* Enum discriminants *)

\* the values a discriminant of the enums above can take
DiscriminantValues ==
  (-2 .. (9 + MaxVariants)) \cup {I32Min + k : k \in 0..MaxVariants}
    \cup {I32Max - 1, I32Max}

\* the decimal text of d + 1, as an unbounded integer
SuccText(d) == IF d = I32Max THEN "2147483648" ELSE ToString(d + 1)

EmittedVariant(i, text) ==
  Wrote(variant_line(call.e.export_name, call.e.variants[i].export_name, text))

ExplicitValue(variant) ==
  IF variant.discriminant.some /\ variant.discriminant.val.tag = "Expr"
  THEN parse_i32(variant.discriminant.val.expr)
  ELSE None

\* C1: an enum whose variants all have no explicit discriminant is emitted
\* with the discriminants 0, 1, 2, ... in declaration order.
C1_ImplicitFromZero ==
  (Returned("write_enum")
     /\ \A i \in 1..Len(call.e.variants) : ~call.e.variants[i].discriminant.some)
  => /\ pc = "emitted"
     /\ \A i \in 1..Len(call.e.variants) : EmittedVariant(i, ToString(i - 1))

\* C2: every variant after the first is emitted with its explicit
\* discriminant when that is an expression literal that parses as an i32,
\* and with the previous variant's emitted value + 1 otherwise; the enum is
\* emitted whatever the discriminant texts are.
C2_ExplicitElsePreviousPlusOne ==
  Returned("write_enum")
  => /\ pc = "emitted"
     /\ \A i \in 2..Len(call.e.variants) :
          LET v == ExplicitValue(call.e.variants[i])
          IN IF v.some
             THEN EmittedVariant(i, ToString(v.val))
             ELSE \E d \in DiscriminantValues :
                    /\ EmittedVariant(i - 1, ToString(d))
                    /\ EmittedVariant(i, SuccText(d))

----------------------------------------------------------------------------
(* Structs *)

InitStruct ==
  Init /\ ~build.overflow_checks /\ ~config.include_version
NextStruct == WriteHeaders \/ OpenNamespaces \/ WriteStruct \/ CloseNamespaces
SpecStruct == InitStruct /\ [][NextStruct]_vars

\* the pieces of the output that are not indentation or line ends
IsLayout(piece) == piece = "\n" \/ piece = Blank(Len(piece))
Visible(text) == SelectSeq(text, LAMBDA piece : ~IsLayout(piece))

ByReference(name) == name \o "ByReference"

Superclasses == {"Structure", "Union", "P", ByReference("P")}
Interfaces == {"Structure.ByValue", "Structure.ByReference"}

\* the heads of the aggregate classes of a declaration called name
AggregateHeaders(name) ==
  {class_header(n, sup, i) :
     n \in {name, ByReference(name)}, sup \in Superclasses, i \in Interfaces}

HasIntegerWrapper(name) ==
  /\ Wrote("class " \o name \o " extends IntegerType")
  /\ Wrote("class " \o ByReference(name) \o " extends ByReference")

HasPointerWrapper(name) ==
  /\ Wrote("class " \o name \o " extends PointerType")
  /\ Wrote("class " \o ByReference(name) \o " extends " \o name)

HasAggregate(name) ==
  \/ \E h \in AggregateHeaders(name) : Wrote(h)
  \/ Wrote("@Structure.FieldOrder({")

OnlyPlaceholder(dbg) ==
  Visible(Emitted) = <<"/* Not implemented yet : " \o dbg \o " */">>

Placeholders ==
  {"/* Not implemented yet : " \o kind \o " " \o n \o " */" :
     kind \in {"Struct", "Typedef", "Static"}, n \in {"S", "T"}}

HasPlaceholder == \E p \in Placeholders : Wrote(p)

\* C3: a transparent struct is emitted by the tag of its first field alone:
\* integer -> integer wrapper and nothing of an aggregate class; Array ->
\* pointer wrapper; Path -> classes that subclass the path; anything else,
\* or no field -> the placeholder only.  A struct that is not transparent
\* is emitted as the Structure class pair.
C3_TransparentByFirstFieldTag ==
  Returned("write_struct") =>
    LET s == call.s
        n == s.export_name
        tag == IF s.fields = <<>> THEN "none"
               ELSE IF IsInteger(s.fields[1].ty) THEN "Integer"
               ELSE s.fields[1].ty.tag
    IN IF s.is_transparent
       THEN CASE tag = "Integer" ->
                   /\ HasIntegerWrapper(n)
                   /\ Wrote("super(" \o size(from_kind(s.fields[1].ty.kind)) \o ");")
                   /\ ~HasAggregate(n) /\ ~HasPointerWrapper(n) /\ ~HasPlaceholder
              [] tag = "Array" ->
                   HasPointerWrapper(n) /\ ~HasAggregate(n)
                     /\ ~HasIntegerWrapper(n) /\ ~HasPlaceholder
              [] tag = "Path" ->
                   /\ \E sup \in {s.fields[1].ty.name, ByReference(s.fields[1].ty.name)} :
                        Wrote(class_header(n, sup, "Structure.ByValue"))
                   /\ \E sup \in {s.fields[1].ty.name, ByReference(s.fields[1].ty.name)} :
                        Wrote(class_header(ByReference(n), sup, "Structure.ByReference"))
                   /\ \A i \in Interfaces, m \in {n, ByReference(n)} :
                        ~Wrote(class_header(m, "Structure", i))
                   /\ ~Wrote("@Structure.FieldOrder({")
                   /\ ~HasIntegerWrapper(n) /\ ~HasPointerWrapper(n) /\ ~HasPlaceholder
              [] OTHER -> OnlyPlaceholder("Struct " \o n)
       ELSE /\ Wrote(class_header(n, "Structure", "Structure.ByValue"))
            /\ Wrote(class_header(ByReference(n), "Structure", "Structure.ByReference"))
            /\ ~HasIntegerWrapper(n) /\ ~HasPointerWrapper(n) /\ ~HasPlaceholder
            /\ \A i \in Interfaces, m \in {n, ByReference(n)} :
                 ~Wrote(class_header(m, "P", i))

\* a transparent struct of two fields, Array then integer, was emitted as a
\* pointer wrapper
C3_Witness ==
  /\ Returned("write_struct")
  /\ call.s.is_transparent
  /\ Len(call.s.fields) = 2
  /\ call.s.fields[1].ty.tag = "Array"
  /\ IsInteger(call.s.fields[2].ty)
  /\ HasPointerWrapper(call.s.export_name)

\* C4: a transparent struct S over a Path P is emitted as class S extending
\* P and class SByReference extending PByReference.
C4_ByReferenceExtendsByReference ==
  (Returned("write_struct") /\ call.s.is_transparent /\ call.s.fields # <<>>
     /\ call.s.fields[1].ty.tag = "Path")
  => /\ Wrote(class_header(call.s.export_name, call.s.fields[1].ty.name,
                           "Structure.ByValue"))
     /\ Wrote(class_header(ByReference(call.s.export_name),
                           ByReference(call.s.fields[1].ty.name),
                           "Structure.ByReference"))

----------------------------------------------------------------------------
(* The field order annotation *)

\* the writer of the first class of a struct when it reaches the annotation
AtFieldOrder ==
  write(write_deprecated(
          write_documentation(new_line(before), call.s.documentation),
          call.s.deprecated),
        "@Structure.FieldOrder({")

FieldOrderHorizontal(sep) ==
  write_horizontal_source_list(AtFieldOrder, field_names(call.s.fields), sep, "write")

FieldOrderVertical(sep) ==
  write_vertical_source_list(AtFieldOrder, field_names(call.s.fields), sep, "write")

FieldOrderFits ==
  try_write_fits(AtFieldOrder, config.line_length,
                 write_horizontal_source_list(
                    try_write_measure(AtFieldOrder), field_names(call.s.fields), ", ", "write"))

\* the output goes on from the annotation list ws as written
FieldOrderIs(ws) == IsPrefix(write(ws, "})").text, out.text)

HasFieldOrder ==
  Returned("write_struct") /\ ~call.s.is_transparent /\ call.s.fields # <<>>

\* C6: the field order annotation follows the configured layout with one
\* separator: forced horizontal under Horizontal, forced vertical under
\* Vertical, horizontal with a fall back to vertical under Auto.
C6_FieldOrderFollowsLayout ==
  HasFieldOrder =>
    \E sep \in {", ", ","} :
      CASE config.args = "Horizontal" -> FieldOrderIs(FieldOrderHorizontal(sep))
        [] config.args = "Vertical" -> FieldOrderIs(FieldOrderVertical(sep))
        [] config.args = "Auto" ->
             IF FieldOrderFits THEN FieldOrderIs(FieldOrderHorizontal(sep))
             ELSE FieldOrderIs(FieldOrderVertical(sep))

\* C6 as amended: whatever the configured layout, the annotation is the
\* horizontal list joined by ", " when that fits in the line length, and the
\* vertical list joined by "," when it does not.
C6_FieldOrderAlwaysAuto ==
  HasFieldOrder =>
    IF FieldOrderFits THEN FieldOrderIs(FieldOrderHorizontal(", "))
    ELSE FieldOrderIs(FieldOrderVertical(","))

\* under Horizontal, a field order of two names that does not fit was
\* written vertically
C6_Witness ==
  /\ HasFieldOrder
  /\ config.args = "Horizontal"
  /\ Len(call.s.fields) = 2
  /\ ~FieldOrderFits
  /\ Wrote("\"x\"") /\ Wrote(",") /\ ~Wrote(", ")

----------------------------------------------------------------------------
(* Function argument lists *)

InitArgs == Init /\ ~build.overflow_checks /\ ~config.include_version
NextArgs == WriteHeaders \/ OpenNamespaces \/ WriteFunction \/ CloseNamespaces
SpecArgs == InitArgs /\ [][NextArgs]_vars

Forced(layout) == [config EXCEPT !.args = layout]

\* the writer of write_function when it reaches the argument list
AtArgs ==
  write(write_type(write_deprecated(
                     write_documentation(before, call.f.documentation),
                     call.f.deprecated),
                   call.f.ret),
        " " \o call.f.name \o "(")

ArgsFit ==
  try_write_fits(AtArgs, config.line_length,
                 write_horizontal_source_list(
                    try_write_measure(AtArgs), indexed(call.f.args), ", ",
                             "write_indexed_function_arg"))

\* C5: under Auto the output of a function is the output under forced
\* Horizontal when the horizontal argument list fits in the line length, and
\* the output under forced Vertical when it does not.
C5_AutoIsHorizontalOrVertical ==
  (Returned("write_function") /\ config.args = "Auto") =>
    IF ArgsFit
    THEN out.text = write_function(before, Forced("Horizontal"), call.f).text
    ELSE out.text = write_function(before, Forced("Vertical"), call.f).text

\* under Auto, two arguments that do not fit in the line were written one
\* per line, and the horizontal list is not in the output
C5_Witness ==
  /\ Returned("write_function")
  /\ config.args = "Auto"
  /\ Len(call.f.args) = 2
  /\ ~ArgsFit
  /\ out.text = write_function(before, Forced("Vertical"), call.f).text
  /\ out.text # write_function(before, Forced("Horizontal"), call.f).text

----------------------------------------------------------------------------
(* Pointer types *)

InitType == Init /\ FixedLayout /\ ~build.overflow_checks
NextType == WriteHeaders \/ OpenNamespaces \/ WriteType \/ CloseNamespaces
SpecType == InitType /\ [][NextType]_vars

\* the name write_type wrote: all it appended but the indentation
WroteName(name) == Visible(Emitted) = <<name>>

ReferenceBases ==
  {"Byte", "Short", "Int", "NativeLong", "Long", "Float", "Double", "Pointer"}

IsByReferenceName(pieces) ==
  \E b \in ReferenceBases : pieces = <<ByReference(b)>>

IntegerReferenceNames ==
  {ByReference(b) : b \in {"Byte", "Short", "Int", "NativeLong", "Long"}}

PointerTo(tag) ==
  Returned("write_type") /\ call.t.tag = "Ptr" /\ call.t.ty.tag = tag

\* what C7 and its amended form say of the pointees that are not primitives
C7_OtherPointees ==
  /\ PointerTo("Ptr") => WroteName("PointerByReference")
  /\ PointerTo("Path") => WroteName(ByReference(call.t.ty.name))
  /\ PointerTo("Array") => WroteName("Pointer")
  /\ PointerTo("FuncPtr") => WroteName("CallbackReference")

\* float, double and the integer kinds have reference names of their own
C7_DistinctReferences ==
  PointerTo("Primitive") =>
    /\ call.t.ty.prim = "Float" => WroteName("FloatByReference")
    /\ call.t.ty.prim = "Double" => WroteName("DoubleByReference")
    /\ call.t.ty.prim = "Integer" =>
         \E n \in IntegerReferenceNames : WroteName(n)

\* C7: a pointer to any primitive is written as a ...ByReference name and
\* never as the generic handle name Pointer; pointers to pointers, paths,
\* arrays and function pointers are written as PointerByReference,
\* <name>ByReference, Pointer and CallbackReference.
C7_PointerNames ==
  /\ PointerTo("Primitive") =>
       IsByReferenceName(Visible(Emitted)) /\ ~WroteName("Pointer")
  /\ C7_DistinctReferences
  /\ C7_OtherPointees

\* C7 as amended: a pointer to Void, Bool or Char32 is written as the generic
\* handle name Pointer; a pointer to VaList or PtrDiffT as the generic
\* PointerByReference; a pointer to any other primitive as a ...ByReference
\* name of its own kind; the rest as in C7.
C7_PointerNamesButVoidBoolChar32 ==
  /\ PointerTo("Primitive") =>
       CASE call.t.ty.prim \in {"Void", "Bool", "Char32"} ->
              WroteName("Pointer")
         [] call.t.ty.prim \in {"VaList", "PtrDiffT"} ->
              WroteName("PointerByReference")
         [] OTHER ->
              \E b \in ReferenceBases \ {"Pointer"} : WroteName(ByReference(b))
  /\ C7_DistinctReferences
  /\ C7_OtherPointees

\* a pointer to Bool was written as Pointer
C7_Witness ==
  /\ PointerTo("Primitive")
  /\ call.t.ty.prim = "Bool"
  /\ WroteName("Pointer")

----------------------------------------------------------------------------
(* The generated integer wrappers at run time.  The text write_integer_type
   emits is Java over the JNA classes IntegerType, ByReference and Pointer;
   the definitions below give the emitted size expressions and accessor
   calls their JNA meaning.  A Java long is eight bytes, kept here as a
   little-endian sequence of bytes in two's complement. *)

LongBytes == 8

\* the widths of a native long and of size_t: ILP32, LP64, LLP64
Platforms ==
  {[long_size |-> 4, size_t_size |-> 4],
   [long_size |-> 8, size_t_size |-> 8],
   [long_size |-> 4, size_t_size |-> 8]}

sign_extend(v, n) ==
  [i \in 1..LongBytes |->
     IF i <= n THEN v[i] ELSE IF v[n] >= 128 THEN 255 ELSE 0]

zero_extend(v, n) == [i \in 1..LongBytes |-> IF i <= n THEN v[i] ELSE 0]

IsNegative(v) == v[LongBytes] >= 128

\* a signed value of n bytes
Representable(v, n) == sign_extend(v, n) = v

\* the range check of IntegerType(size, value)
IntegerTypeAccepts(n, v) ==
  \/ n >= LongBytes
  \/ IF IsNegative(v) THEN sign_extend(v, n) = v ELSE zero_extend(v, n) = v

\* 0, -1 and, at every byte boundary k: 2^(8(k-1)), 2^(8k-1), the largest and
\* the smallest signed value of k bytes
RawValues ==
  {[i \in 1..LongBytes |-> 0], [i \in 1..LongBytes |-> 255]}
    \cup {[i \in 1..LongBytes |-> IF i = k THEN 1 ELSE 0] : k \in 1..LongBytes}
    \cup {[i \in 1..LongBytes |-> IF i = k THEN 128 ELSE 0] : k \in 1..LongBytes}
    \cup {[i \in 1..LongBytes |->
             IF i < k THEN 255 ELSE IF i = k THEN 127 ELSE 0] : k \in 1..LongBytes}
    \cup {[i \in 1..LongBytes |->
             IF i < k THEN 0 ELSE IF i = k THEN 128 ELSE 255] : k \in 1..LongBytes}

SizeTexts == {"1", "2", "4", "8", "Native.LONG_SIZE", "Native.SIZE_T_SIZE"}

\* the value of a size expression
SizeOf(text, platform) ==
  CASE text = "1" -> 1
    [] text = "2" -> 2
    [] text = "4" -> 4
    [] text = "8" -> 8
    [] text = "Native.LONG_SIZE" -> platform.long_size
    [] text = "Native.SIZE_T_SIZE" -> platform.size_t_size

SetterTexts ==
  {"setByte(0, (byte)value.intValue())",
   "setShort(0, (short)value.intValue())",
   "setInt(0, value.intValue())",
   "setNativeLong(0, new NativeLong(value.longValue()))",
   "setLong(0, value.longValue())"}

\* the bytes a Pointer setter writes
SetterWidth(text, platform) ==
  CASE text = "setByte(0, (byte)value.intValue())" -> 1
    [] text = "setShort(0, (short)value.intValue())" -> 2
    [] text = "setInt(0, value.intValue())" -> 4
    [] text = "setNativeLong(0, new NativeLong(value.longValue()))" ->
         platform.long_size
    [] text = "setLong(0, value.longValue())" -> 8

\* new NativeLong(v) is an IntegerType of the native long's size
SetterThrows(text, platform, v) ==
  /\ text = "setNativeLong(0, new NativeLong(value.longValue()))"
  /\ ~IntegerTypeAccepts(platform.long_size, v)

GetterTexts ==
  {"getByte(0)", "getShort(0)", "getInt(0)", "getNativeLong(0).longValue()",
   "getLong(0)"}

\* the bytes a Pointer getter reads
GetterWidth(text, platform) ==
  CASE text = "getByte(0)" -> 1
    [] text = "getShort(0)" -> 2
    [] text = "getInt(0)" -> 4
    [] text = "getNativeLong(0).longValue()" -> platform.long_size
    [] text = "getLong(0)" -> 8

\* the size expressions and accessor calls of the emitted pair
EmittedSizes == {text \in SizeTexts : Wrote("super(" \o text \o ", value);")}

EmittedSetters ==
  {text \in SetterTexts : Wrote("getPointer()." \o text \o ";")}

EmittedGetters ==
  {text \in GetterTexts :
     Wrote("return new " \o call.t.export_name
             \o "(getPointer()." \o text \o ");")}

EmittedFromPointer == {text \in GetterTexts : Wrote("this(p." \o text \o ");")}

\* new T(v), on some platform, for a value of the wrapper's width
NewValue ==
  /\ Returned("write_type_def")
  /\ jvm.pc = "off"
  /\ \E platform \in Platforms, text \in EmittedSizes, v \in RawValues :
       /\ Representable(v, SizeOf(text, platform))
       /\ IntegerTypeAccepts(SizeOf(text, platform), v)
       /\ jvm' = [pc |-> "value", platform |-> platform, value |-> v]
  /\ UNCHANGED <<out, config, build, pc, call, before, ret>>

\* new TByReference(): ByReference(size) allocates size bytes
NewReference ==
  /\ Returned("write_type_def")
  /\ jvm.pc = "value"
  /\ \E text \in EmittedSizes :
       jvm' = [jvm EXCEPT !.pc = "reference"] @@
              [memory |-> [i \in 1..SizeOf(text, jvm.platform) |-> 0]]
  /\ UNCHANGED <<out, config, build, pc, call, before, ret>>

\* reference.setValue(value)
SetValue ==
  /\ Returned("write_type_def")
  /\ jvm.pc = "reference"
  /\ \E text \in EmittedSetters :
       LET n == SetterWidth(text, jvm.platform)
       IN IF SetterThrows(text, jvm.platform, jvm.value)
             \/ n > Len(jvm.memory)
          THEN jvm' = [jvm EXCEPT !.pc = "thrown"]
          ELSE jvm' = [jvm EXCEPT
                         !.pc = "set",
                         !.memory = [i \in 1..Len(jvm.memory) |->
                                       IF i <= n THEN jvm.value[i]
                                       ELSE jvm.memory[i]]]
  /\ UNCHANGED <<out, config, build, pc, call, before, ret>>

\* reference.getValue(): new T(getPointer().get...)
GetValue ==
  /\ Returned("write_type_def")
  /\ jvm.pc = "set"
  /\ \E text \in EmittedGetters, bytes \in EmittedSizes :
       LET n == GetterWidth(text, jvm.platform)
           read == sign_extend(zero_extend(jvm.memory, Max(n, Len(jvm.memory))), n)
       IN IF n > Len(jvm.memory)
             \/ ~IntegerTypeAccepts(SizeOf(bytes, jvm.platform), read)
          THEN jvm' = [jvm EXCEPT !.pc = "thrown"]
          ELSE jvm' = [jvm EXCEPT !.pc = "got"] @@ [result |-> read]
  /\ UNCHANGED <<out, config, build, pc, call, before, ret>>

InitInteger == Init /\ FixedLayout /\ ~build.overflow_checks
NextInteger ==
  \/ WriteHeaders
  \/ OpenNamespaces
  \/ WriteTypeDef
  \/ NewValue
  \/ NewReference
  \/ SetValue
  \/ GetValue
  \/ CloseNamespaces
SpecInteger == InitInteger /\ [][NextInteger]_vars

\* the width of the C integer kind
KindWidth(kind, platform) ==
  CASE kind \in {"B8"} -> 1
    [] kind \in {"Short", "B16"} -> 2
    [] kind \in {"Int", "B32"} -> 4
    [] kind \in {"LongLong", "B64"} -> 8
    [] kind = "Long" -> platform.long_size
    [] kind \in {"SizeT", "Size"} -> platform.size_t_size

IntegerTypedef ==
  /\ Returned("write_type_def")
  /\ call.t.aliased.tag = "Primitive"
  /\ call.t.aliased.prim = "Integer"

C8_SameWidth ==
  IntegerTypedef =>
    \A platform \in Platforms :
      /\ \A text \in EmittedSizes :
           SizeOf(text, platform) = KindWidth(call.t.aliased.kind, platform)
      /\ \A text \in EmittedSetters, bytes \in EmittedSizes :
           SetterWidth(text, platform) = SizeOf(bytes, platform)
      /\ \A text \in EmittedGetters \cup EmittedFromPointer,
            bytes \in EmittedSizes :
           GetterWidth(text, platform) = SizeOf(bytes, platform)

C8_RoundTrips ==
  /\ jvm.pc # "thrown"
  /\ jvm.pc = "got" => jvm.result = jvm.value

\* C8: for every integer kind the emitted wrapper pair round-trips (a value
\* of the kind's width, written by setValue and read by getValue, comes back
\* unchanged), and the setter, the getter, the from-pointer constructor and
\* the size passed to the constructors all denote the kind's width.
C8_IntegerWrappersRoundTrip == C8_RoundTrips /\ C8_SameWidth

----------------------------------------------------------------------------
(* Typedefs *)

InitTypedef == Init /\ ~build.overflow_checks /\ ~config.include_version
NextTypedef == WriteHeaders \/ OpenNamespaces \/ WriteTypeDef \/ CloseNamespaces
SpecTypedef == InitTypedef /\ [][NextTypedef]_vars

Count(piece) == Len(SelectSeq(Emitted, LAMBDA q : q = piece))

\* the heads of the classes a declaration called name can open
ClassHeaders(name) ==
  AggregateHeaders(name)
    \cup {"class " \o n \o " extends " \o sup :
            n \in {name, ByReference(name)},
            sup \in {"P", ByReference("P"), "IntegerType", "ByReference",
                     "PointerType", name}}

\* the class heads emitted, in order
EmittedClasses(name) ==
  SelectSeq(Emitted, LAMBDA piece : piece \in ClassHeaders(name))

BothConstructors(name) ==
  /\ Count("public " \o name \o "()") = 1
  /\ Count("public " \o name \o "(Pointer p)") = 1

\* C9: write_type_def's output follows the tag of the aliased type alone:
\* FuncPtr -> one callback interface with the one method invoke; Path P ->
\* the two classes T extends P and TByReference extends PByReference, each
\* with a default and a from-pointer constructor; integer -> the integer
\* wrapper pair of the kind; Ptr or Array -> the pointer wrapper pair; any
\* other primitive -> the placeholder only.
C9_TypedefByAliasedTag ==
  Returned("write_type_def") =>
    LET t == call.t
        n == t.export_name
        a == t.aliased
    IN CASE a.tag = "FuncPtr" ->
              /\ Count("interface " \o n \o " extends Callback") = 1
              /\ Count(" invoke(") = 1
              /\ EmittedClasses(n) = <<>>
              /\ ~HasPlaceholder
         [] a.tag = "Path" ->
              /\ EmittedClasses(n) =
                   <<"class " \o n \o " extends " \o a.name,
                     "class " \o ByReference(n) \o " extends " \o ByReference(a.name)>>
              /\ BothConstructors(n)
              /\ BothConstructors(ByReference(n))
              /\ Count("super();") = 2 /\ Count("super(p);") = 2
              /\ ~HasPlaceholder
         [] IsInteger(a) ->
              /\ EmittedClasses(n) =
                   <<"class " \o n \o " extends IntegerType",
                     "class " \o ByReference(n) \o " extends ByReference">>
              /\ Wrote("super(" \o size(from_kind(a.kind)) \o ", value);")
              /\ Wrote("this(p." \o get_method(from_kind(a.kind)) \o ");")
              /\ Wrote("getPointer()." \o set_method(from_kind(a.kind)) \o ";")
              /\ ~HasPlaceholder
         [] a.tag \in {"Ptr", "Array"} ->
              /\ EmittedClasses(n) =
                   <<"class " \o n \o " extends PointerType",
                     "class " \o ByReference(n) \o " extends " \o n>>
              /\ ~HasPlaceholder
         [] OTHER -> OnlyPlaceholder("Typedef " \o n)

\* a typedef of Path P was emitted, its second class extending PByReference
C9_Witness ==
  /\ Returned("write_type_def")
  /\ call.t.aliased = Path("P")
  /\ Wrote("class TByReference extends PByReference")
  /\ Wrote("public TByReference(Pointer p)")

----------------------------------------------------------------------------
(* Literal wrapping *)

InitLiteral == Init /\ FixedLayout /\ ~build.overflow_checks
NextLiteral == WriteHeaders \/ OpenNamespaces \/ WrapJavaValue \/ CloseNamespaces
SpecLiteral == InitLiteral /\ [][NextLiteral]_vars

\* the returned literal is the expression text
Gives(text) == ret.val.tag = "Expr" /\ Str(ret.val.expr) = text

\* C10: wrap_java_value on an expression e: Double -> e"d"; Float -> e"f";
\* LongLong, B64 -> e"L"; Long, Size, SizeT -> new NativeLong(e); Path P ->
\* new P(e); any other type -> e.  A literal that is not an expression is
\* returned as it is, whatever the type.
C10_WrapByType ==
  Returned("wrap_java_value") =>
    LET l == call.literal
        ty == call.ty
        e == Str(l.expr)
    IN IF l.tag = "Expr"
       THEN CASE ty = Primitive("Double") -> Gives(e \o "d")
              [] ty = Primitive("Float") -> Gives(e \o "f")
              [] IsInteger(ty) /\ ty.kind \in {"LongLong", "B64"} -> Gives(e \o "L")
              [] IsInteger(ty) /\ ty.kind \in {"Long", "Size", "SizeT"} ->
                   Gives("new NativeLong(" \o e \o ")")
              [] ty.tag = "Path" -> Gives("new " \o ty.name \o "(" \o e \o ")")
              [] OTHER -> ret.val = l
       ELSE ret.val = l

\* the expression 1.5 for a SizeT was wrapped in new NativeLong(...)
C10_Witness ==
  /\ Returned("wrap_java_value")
  /\ call.literal = Expr(<<"1", ".", "5">>)
  /\ call.ty = Integer("SizeT")
  /\ Gives("new NativeLong(1.5)")

----------------------------------------------------------------------------
(* Parameter names *)

InitParams == Init /\ ~build.overflow_checks /\ ~config.include_version
NextParams ==
  \/ WriteHeaders
  \/ OpenNamespaces
  \/ WriteFunction
  \/ WriteTypeDef
  \/ CloseNamespaces
SpecParams == InitParams /\ [][NextParams]_vars

\* the name of the parameter at position i, counted from one
ExpectedName(args, i) ==
  IF args[i].name.some /\ args[i].name.val # "_"
  THEN args[i].name.val
  ELSE "arg" \o ToString(i - 1)

\* the pieces of the parameters from the i-th on: mapped type, then the name
RECURSIVE ExpectedParams(_, _)
ExpectedParams(args, i) ==
  IF i > Len(args) THEN <<>>
  ELSE Visible(write_type(NewWriter, args[i].ty).text)
         \o <<" " \o ExpectedName(args, i)>>
         \o ExpectedParams(args, i + 1)

\* the pieces emitted between the piece that opens the parameter list and
\* the ");" that closes it, without the separators
EmittedParams(opening) ==
  LET v == Visible(Emitted)
      from == CHOOSE i \in 1..Len(v) : v[i] = opening
      to == CHOOSE j \in 1..Len(v) : v[j] = ");"
  IN SelectSeq(SubSeq(v, from + 1, to - 1), LAMBDA piece : piece # ", ")

IsCallback == Returned("write_type_def") /\ call.t.aliased.tag = "FuncPtr"

\* C11: the parameter list of a function, and of the invoke method of a
\* callback typedef, holds the parameters in declaration order, none
\* dropped, each as its mapped type and then its declared name, or arg<i>
\* (i counted from zero) when the name is absent or is "_".
C11_ParameterNames ==
  /\ Returned("write_function") =>
       EmittedParams(" " \o call.f.name \o "(") = ExpectedParams(call.f.args, 1)
  /\ IsCallback =>
       EmittedParams(" invoke(") = ExpectedParams(call.t.aliased.args, 1)

\* a function whose second parameter is named "_" was emitted with arg1
C11_Witness ==
  /\ Returned("write_function")
  /\ Len(call.f.args) = 2
  /\ call.f.args[1].name = Some("count")
  /\ call.f.args[2].name = Some("_")
  /\ Wrote(" count")
  /\ Wrote(" arg1")

----------------------------------------------------------------------------
(* Opaque items *)

InitOpaque == Init /\ ~build.overflow_checks
NextOpaque ==
  WriteHeaders \/ OpenNamespaces \/ WriteOpaqueItem \/ CloseNamespaces
SpecOpaque == InitOpaque /\ [][NextOpaque]_vars

\* the pieces of the documentation and deprecation of an item
AnnotationPieces(item) ==
  {"/**", " */", "@Deprecated"}
    \cup {" *" \o item.documentation.doc_comment[k] :
            k \in 1..Len(item.documentation.doc_comment)}
    \cup (IF item.deprecated.some
          THEN {" * @deprecated " \o item.deprecated.val}
          ELSE {})

\* a class with a default and a from-pointer constructor and nothing else
HandleClass(name, superclass) ==
  <<"class " \o name \o " extends " \o superclass, " {",
    "public " \o name \o "()", " {", "super(null);", "}",
    "public " \o name \o "(Pointer p)", " {", "super(p);", "}",
    "}">>

\* C12: write_opaque_item for an item named N emits the two classes N and
\* NByReference and nothing else but their documentation: each class has a
\* default constructor and a constructor from a Pointer, and no field.
C12_OpaqueIsTwoHandleClasses ==
  Returned("write_opaque_item") =>
    LET n == call.o.export_name
    IN SelectSeq(Visible(Emitted),
                 LAMBDA piece : piece \notin AnnotationPieces(call.o))
         = HandleClass(n, "PointerType") \o HandleClass(ByReference(n), n)

\* the opaque item Handle was emitted with its HandleByReference class
C12_Witness ==
  /\ Returned("write_opaque_item")
  /\ call.o.export_name = "Handle"
  /\ Wrote("class HandleByReference extends Handle")
  /\ Wrote("public HandleByReference(Pointer p)")

----------------------------------------------------------------------------
(* Determinism of the emission *)

InitReplay ==
  Init /\ FixedLayout /\ ~build.overflow_checks /\ ~config.include_version

NextReplay ==
  \/ WriteHeaders
  \/ OpenNamespaces
  \/ WriteEnum
  \/ WriteStruct
  \/ WriteUnion
  \/ WriteOpaqueItem
  \/ WriteTypeDef
  \/ WriteStatic
  \/ WriteFunction
  \/ Replay
  \/ WriteAgain
  \/ CloseNamespaces

SpecReplay == InitReplay /\ [][NextReplay]_vars

----------------------------------------------------------------------------
(* The i32 arithmetic of the discriminants *)

\* the addition current_discriminant + 1 leaves the i32 range for some
\* variant of e: the loop run with the additions checked stops there
Overflows(e) == write_enum_variants(NewWriter, e, TRUE).panic

\* C14: write_enum completes for every variant sequence and no addition of
\* its discriminant arithmetic overflows the i32, in a build with overflow
\* checks and in one without.
C14_NoFatalDiscriminantArithmetic ==
  Returned("write_enum") => pc = "emitted" /\ ~Overflows(call.e)

----------------------------------------------------------------------------
(* Brace nesting *)

InitNesting ==
  Init /\ config.args = "Auto" /\ config.line_length = 30
       /\ ~config.include_version

NextNesting ==
  \/ WriteHeaders
  \/ OpenNamespaces
  \/ WriteEnum
  \/ WriteStruct
  \/ WriteUnion
  \/ WriteOpaqueItem
  \/ WriteTypeDef
  \/ WriteStatic
  \/ WriteFunction
  \/ NextDeclaration
  \/ CloseNamespaces

SpecNesting == InitNesting /\ [][NextNesting]_vars

\* the braces open after the first k pieces
Balance(pieces, k) ==
  Cardinality({i \in 1..k : pieces[i] = " {"})
    - Cardinality({i \in 1..k : pieces[i] \in {"}", "};"}})

\* the braces of the pieces nest: no closing brace without an open one
\* before it, and none left open at the end
BracesNest(pieces) ==
  /\ Balance(pieces, Len(pieces)) = 0
  /\ \A k \in 1..Len(pieces) :
       pieces[k] \in {"}", "};"} => Balance(pieces, k) >= 0

\* C15: a declaration emitter that returns leaves the depth of the writer
\* as it found it, and the braces it wrote nest: it closes none it did not
\* open.  open_close_namespaces(Open) raises the depth by one and Close
\* lowers it by one, so after Open, any sequence of declarations and Close
\* the depth is the initial one, and it is never below it on the way.
C15_BracesBalanced ==
  /\ (pc = "emitted" /\ call.op \in Declarations)
       => depth(out) = depth(before) /\ BracesNest(Emitted)
  /\ (call.op = "open_close_namespaces" /\ call.ns = "Open")
       => depth(out) = depth(before) + 1
  /\ (call.op = "open_close_namespaces" /\ call.ns = "Close")
       => depth(out) = depth(before) - 1
  /\ pc = "closed" => depth(out) = depth(NewWriter)
  /\ depth(out) >= depth(NewWriter)

\* C15: a typedef of a function pointer has been emitted after another
\* declaration, and its arguments, which did not fit the line, were written
\* one per line between the braces of the callback interface
C15_Witness ==
  /\ pc = "emitted"
  /\ call.op = "write_type_def"
  /\ call.t.aliased.tag = "FuncPtr"
  /\ before.text = <<>>
  /\ Wrote(" {")
  /\ \E i \in 1..(Len(Emitted) - 1) : Emitted[i] = ", " /\ Emitted[i + 1] = "\n"

----------------------------------------------------------------------------
(* Writable literals *)

InitWritable == Init /\ FixedLayout /\ ~build.overflow_checks

NextWritable ==
  \/ WriteHeaders
  \/ OpenNamespaces
  \/ JavaWritableLiteral
  \/ CloseNamespaces

SpecWritable == InitWritable /\ [][NextWritable]_vars

\* C16: java_writable_literal is false for a literal that is not an
\* expression; for an expression it is false exactly when the type is
\* Char32 and the text starts with U'\U, or the type is an integer and the
\* text ends with ull.  An integer-typed expression not ending with ull is
\* writable.
C16_WritableButChar32AndUll ==
  Returned("java_writable_literal") =>
    LET l == call.literal
        ty == call.ty
    IN ret.val =
         (/\ l.tag = "Expr"
          /\ ~(ty = Primitive("Char32")
                 /\ starts_with(l.expr, <<"U", "'", "\\", "U">>))
          /\ ~(IsInteger(ty) /\ ends_with(l.expr, <<"u", "l", "l">>)))

====
